---- MODULE Spec2Model ----
(***************************************************************************)
(* Gacha history backend: the fetch / normalize / dedupe / stats pipeline  *)
(* of gacha_fetcher.py and the HTTP handlers of app.py.                    *)
(*                                                                         *)
(* Strings that the code compares, orders or tests for truthiness (record  *)
(* ids, the vendor's time and rank_type fields, the pasted URL) are        *)
(* sequences of characters, so that "" is <<>> and the order is Python's   *)
(* lexicographic order.  A missing dictionary key and None are <<>> too:   *)
(* the code reads them with .get(...) and only tests their truthiness.     *)
(***************************************************************************)
EXTENDS Integers, Sequences, FiniteSets, TLC

\* ------------------------------------------------------------------ bounds
\* Largest number of pulls the upstream account holds.
MaxPulls == 3
\* Longest list handed to dedupe_and_sort / stored in the history file when
\* the function is examined on its own.
MaxLen == 3

\* ------------------------------------------------------- program constants
FETCH_PAGE_SIZE == 20

GACHA_TYPES ==
  ("100" :> "Beginner") @@ ("200" :> "Standard") @@ ("301" :> "Character Event")
  @@ ("302" :> "Weapon Event") @@ ("500" :> "Chronicled")

\* Iteration order of GACHA_TYPES.items(): the dict's insertion order.
CodeOrder == <<"100", "200", "301", "302", "500">>

Labels == {GACHA_TYPES[c] : c \in DOMAIN GACHA_TYPES}

\* --------------------------------------------------------------- helpers
Min(a, b) == IF a <= b THEN a ELSE b

Reverse(s) == [i \in 1..Len(s) |-> s[Len(s) + 1 - i]]

RECURSIVE SumOver(_, _)
SumOver(f, S) ==
  IF S = {} THEN 0
  ELSE LET x == CHOOSE y \in S : TRUE IN f[x] + SumOver(f, S \ {x})

\* Python's truthiness of a str / None / missing key.
Truthy(s) == s # <<>>

\* Python's  a < b  on strings: first differing character decides, a proper
\* prefix is smaller.
RECURSIVE LexLess(_, _)
LexLess(a, b) ==
  IF b = <<>> THEN FALSE
  ELSE IF a = <<>> THEN TRUE
  ELSE IF a[1] # b[1] THEN a[1] < b[1]
  ELSE LexLess(Tail(a), Tail(b))

\* str.strip() on the pasted URL; " " is the only whitespace character used.
RECURSIVE LStrip(_)
LStrip(s) == IF s # <<>> /\ s[1] = " " THEN LStrip(Tail(s)) ELSE s

Strip(s) == Reverse(LStrip(Reverse(LStrip(s))))

\* int(r.get("rank_type", 0)): the vendor sends one decimal digit.
RankToInt(rank_type) == IF rank_type = <<>> THEN 0 ELSE rank_type[1]

\* int(datetime.strptime(r["time"], fmt).timestamp()), 0 when the string does
\* not parse.  A well-formed time string is <<"t", seconds>>.
ParseTs(time) ==
  IF Len(time) = 2 /\ time[1] = "t" THEN time[2] ELSE 0

\* ------------------------------------------------------------- variables
VARIABLES
  upstream,    \* vendor side: banner code -> rows, newest first
  DATA_FILE,   \* <<>> when gacha_history_all.json does not exist, else <<rows>>
  pc,          \* "idle" | "probe" | "req" | "sleep" | "returned" | "combine"
  raw_url,     \* api_fetch: the stripped URL of the request being handled
  gidx,        \* fetch_all_gachas: index in CodeOrder of the category crawled
  rows,        \* fetch_banner locals
  page,
  end_id,
  all_rows,    \* fetch_all_gachas locals
  by_banner,
  resp,        \* response to the last POST /api/fetch (NoResp while pending)
  stats_resp,  \* response to the last GET /api/stats since then (else NoResp)
  \* observers: they record what happened, no guard or assignment of the code reads them
  probes,      \* upstream probe requests issued for the current request
  probeAnswer, \* what the vendor answered to the probe
  paged,       \* whether a category page request was issued for it
  written,     \* whether save_history ran for it
  fileBefore,  \* DATA_FILE when the request arrived
  lastEvent,   \* "begin" | "request" | "delay": last step of the current crawl
  nReq,        \* page requests issued so far for the current category
  anyFailure,  \* a page request of the current run failed
  catFailed,   \* a page request of the current category's crawl failed
  served,      \* <<code, id>> of every row the upstream handed out in this run
  crawled      \* categories whose crawl was started, in order

vars == <<upstream, DATA_FILE, pc, raw_url, gidx, rows, page, end_id, all_rows,
          by_banner, resp, stats_resp, probes, probeAnswer, paged, written,
          fileBefore, lastEvent, nReq, anyFailure, catFailed, served, crawled>>

local == <<gidx, rows, page, end_id, all_rows, by_banner>>
observed == <<probes, probeAnswer, paged, written, fileBefore, lastEvent, nReq, anyFailure,
             catFailed, served, crawled>>

NoResp == [status |-> 0, kind |-> "none"]

\* ------------------------------------------------------------- upstream
\* The vendor API.  An account holds at most MaxPulls pulls, on two of the
\* banners; the i-th newest has the i-th largest id (ids grow with time),
\* every second pull is a 5-star, pulls made together share a time stamp, and
\* a time string may be one the fixed format does not parse.
DataCodes == {"200", "301"}
Ranks == {<<3>>, <<5>>}

IdOf(i) == <<1, 9 - i>>
TimeOf(i) == (MaxPulls + 1 - i) \div 2 + 1
RankOf(i) == IF i % 2 = 0 THEN <<5>> ELSE <<3>>

PullChoices(n) == [1..n -> [gacha_type : DataCodes, parses : BOOLEAN]]

RawRow(i, ch) ==
  [id |-> IdOf(i), gacha_type |-> ch.gacha_type, rank_type |-> RankOf(i),
   time |-> IF ch.parses THEN <<"t", TimeOf(i)>> ELSE <<"x">>]

UpstreamOf(n, f) ==
  [c \in DOMAIN GACHA_TYPES |->
     SelectSeq([i \in 1..n |-> RawRow(i, f[i])], LAMBDA r : r.gacha_type = c)]

Upstreams(max) ==
  {UpstreamOf(Len(f), f) : f \in UNION {PullChoices(m) : m \in 0..max}}

\* What the vendor answers to one getGachaLog request.  exc: the transport
\* failed, timed out or the status was not 2xx (raise_for_status);  otherwise
\* the JSON body's retcode and data.list (data is null on a vendor error).
Failure == [exc |-> TRUE, retcode |-> 0, list |-> <<>>]
VendorError == [exc |-> FALSE, retcode |-> -101, list |-> <<>>]
Success(list) == [exc |-> FALSE, retcode |-> 0, list |-> list]

\* Rows of a category strictly older than end_id (all of them without end_id).
Older(u, req) ==
  IF Truthy(req.end_id)
  THEN SelectSeq(u[req.gacha_type], LAMBDA r : LexLess(r.id, req.end_id))
  ELSE u[req.gacha_type]

\* The next page: at most req.size of the older rows, newest first; a page is
\* empty only when no older row is left.
Pages(u, req) ==
  LET o == Older(u, req) IN
  IF o = <<>> THEN {<<>>}
  ELSE {SubSeq(o, 1, k) : k \in 1..Min(req.size, Len(o))}

Answers(u, req) == {Failure, VendorError} \cup {Success(p) : p \in Pages(u, req)}

\* ------------------------------------------------------- gacha_fetcher.py
\* test_link that accepts any body that parsed, whatever its retcode.
test_link_AnyBody(js) == ~js.exc

\* test_link: retcode 0 of a response that arrived and parsed.
test_link(js) == ~js.exc /\ js.retcode = 0

\* fetch_banner, the URL of one page request; end_id is sent only when truthy.
PageRequest(gacha_type, pg, eid) ==
  [gacha_type |-> gacha_type, page |-> pg, size |-> FETCH_PAGE_SIZE,
   end_id |-> IF Truthy(eid) THEN eid ELSE <<>>]

\* fetch_banner, the per-row transform.
TransformRow(r, gacha_type) ==
  [id |-> r.id, rank_type |-> r.rank_type, time |-> r.time,
   banner |-> gacha_type,
   banner_label |-> IF gacha_type \in DOMAIN GACHA_TYPES
                    THEN GACHA_TYPES[gacha_type] ELSE gacha_type,
   rarity |-> RankToInt(r.rank_type),
   _ts |-> ParseTs(r.time)]

TransformRows(data_rows, gacha_type) ==
  [i \in 1..Len(data_rows) |-> TransformRow(data_rows[i], gacha_type)]

\* fetch_banner: data_rows = (js.get("data") or {}).get("list") or []
DataRows(js) == js.list

\* The cursor taken from the first row of the page instead of the last.
NextCursor_First(data_rows) == data_rows[1].id

\* fetch_banner: end_id = data_rows[-1]["id"]
NextCursor(data_rows) == data_rows[Len(data_rows)].id

\* A failed request that throws the category's rows away.
RowsAfterBreak_Dropped(rs) == <<>>

\* fetch_banner: a failed request breaks out of the loop and the rows gathered
\* so far are returned.
RowsAfterBreak(rs) == rs

\* A loop that goes straight to the next request.
AfterPage_NoSleep == "req"

\* fetch_banner: where control goes after a non-empty page: time.sleep.
AfterPage == "sleep"

\* A dedupe in which the last row of an id wins.
RECURSIVE Dedupe_LastWins(_, _)
Dedupe_LastWins(rs, seen) ==
  IF rs = <<>> THEN <<>>
  ELSE LET r == rs[Len(rs)]
           rest == SubSeq(rs, 1, Len(rs) - 1) IN
       IF Truthy(r.id) /\ r.id \notin seen
       THEN Dedupe_LastWins(rest, seen \cup {r.id}) \o <<r>>
       ELSE Dedupe_LastWins(rest, seen)

\* dedupe_and_sort, the first loop: keep the first row of every truthy id.
RECURSIVE Dedupe(_, _)
Dedupe(rs, seen) ==
  IF rs = <<>> THEN <<>>
  ELSE LET r == rs[1] IN
       IF Truthy(r.id) /\ r.id \notin seen
       THEN <<r>> \o Dedupe(Tail(rs), seen \cup {r.id})
       ELSE Dedupe(Tail(rs), seen)

\* A sort key of the time stamp alone.
KeyLess_TsOnly(a, b) == a._ts < b._ts

\* The sort key (r["_ts"], r["id"]) compared as Python compares tuples.
KeyLess(a, b) ==
  \/ a._ts < b._ts
  \/ a._ts = b._ts /\ LexLess(a.id, b.id)

\* list.sort(key=..., reverse=True): descending, and stable (rows of equal key
\* keep their order).  Insertion of x after every row whose key is not smaller.
RECURSIVE InsertDesc(_, _)
InsertDesc(x, s) ==
  IF s = <<>> THEN <<x>>
  ELSE IF KeyLess(s[1], x) THEN <<x>> \o s
  ELSE <<s[1]>> \o InsertDesc(x, Tail(s))

RECURSIVE SortDesc(_)
SortDesc(s) ==
  IF s = <<>> THEN <<>>
  ELSE InsertDesc(s[Len(s)], SortDesc(SubSeq(s, 1, Len(s) - 1)))

dedupe_and_sort(rs) == SortDesc(Dedupe(rs, {}))

\* calc_stats, the pity loop for one label: skip other labels, stop at the
\* first 5-star, count the rest.
RECURSIVE PityLoop(_, _)
PityLoop(rs, label) ==
  IF rs = <<>> THEN 0
  ELSE IF rs[1].banner_label # label THEN PityLoop(Tail(rs), label)
  ELSE IF rs[1].rarity = 5 THEN 0
  ELSE 1 + PityLoop(Tail(rs), label)

CountRarity(rs, k) == Len(SelectSeq(rs, LAMBDA r : r.rarity = k))

\* calc_stats (the two rates, rounded quotients of these counts, are left out).
calc_stats(rs) ==
  [total_pulls |-> Len(rs),
   five_star_count |-> CountRarity(rs, 5),
   four_star_count |-> CountRarity(rs, 4),
   pity |-> [label \in Labels |-> PityLoop(rs, label)]]

\* ----------------------------------------------------------------- app.py
\* load_history: [] when the file does not exist, else its JSON content (rows
\* of strings and integers, which json.dump / json.load give back unchanged).
load_history(file) == IF file = <<>> THEN <<>> ELSE file[1]

\* api_stats: the label of a row, banner_label or else banner.
RowLabel(r) == IF r.banner_label # "" THEN r.banner_label ELSE r.banner

\* An order check that never asks for the reversal.
OrderedNewestFirst_Always(rs) == TRUE

\* api_stats: ordered_newest_first.  The time stamps are compared only when
\* both the first and the last row have a truthy (non-zero) _ts.
OrderedNewestFirst(rs) ==
  IF rs # <<>> /\ rs[Len(rs)]._ts # 0 /\ rs[1]._ts # 0
  THEN rs[1]._ts >= rs[Len(rs)]._ts
  ELSE TRUE

RowsSorted(rs) == IF ~OrderedNewestFirst(rs) THEN Reverse(rs) ELSE rs

\* A pity loop that skips a 5-star instead of stopping at it.
RECURSIVE StatsPityLoop_NoBreak(_, _)
StatsPityLoop_NoBreak(rs, label) ==
  IF rs = <<>> THEN 0
  ELSE IF rs[1].banner_label # label \/ rs[1].rarity = 5
       THEN StatsPityLoop_NoBreak(Tail(rs), label)
       ELSE 1 + StatsPityLoop_NoBreak(Tail(rs), label)

\* api_stats, the pity loop for one label over rows_sorted.
RECURSIVE StatsPityLoop(_, _)
StatsPityLoop(rs, label) ==
  IF rs = <<>> THEN 0
  ELSE IF RowLabel(rs[1]) # label THEN StatsPityLoop(Tail(rs), label)
  ELSE IF rs[1].rarity = 5 THEN 0
  ELSE 1 + StatsPityLoop(Tail(rs), label)

\* api_stats: the labels are gathered from the rows.
StatsLabels(rs) == {RowLabel(rs[i]) : i \in 1..Len(rs)}

\* api_stats (the two rates are left out; the rows read from the file carry an
\* integer rarity already, so the normalising loop changes nothing).
api_stats(file) ==
  LET rs == load_history(file) IN
  IF rs = <<>>
  THEN [status |-> 404, kind |-> "no_history"]
  ELSE [status |-> 200, kind |-> "stats",
        total_pulls |-> Len(rs),
        five_star_count |-> CountRarity(rs, 5),
        four_star_count |-> CountRarity(rs, 4),
        pity |-> [label \in StatsLabels(RowsSorted(rs)) |->
                    StatsPityLoop(RowsSorted(rs), label)]]

\* api_fetch: counts = {k: len(v) for k, v in result["by_banner"].items()}
CountsByBanner(bb) == [label \in DOMAIN bb |-> Len(bb[label])]

FetchOk(bb) ==
  [status |-> 200, kind |-> "ok", counts_by_banner |-> CountsByBanner(bb),
   total |-> SumOver(CountsByBanner(bb), DOMAIN bb)]

MissingUrl == [status |-> 400, kind |-> "missing_url"]
InvalidLink == [status |-> 400, kind |-> "invalid_link"]

\* ---------------------------------------------------------------- actions
BodyUrls == {<<>>, <<" ">>, <<"u">>, <<" ", "u", " ">>}

\* fetch_banner's first line, for category number i of the table.
StartBanner(i) ==
  /\ gidx' = i
  /\ rows' = <<>>
  /\ page' = 1
  /\ end_id' = <<>>
  /\ pc' = "req"
  /\ lastEvent' = "begin"
  /\ nReq' = 0
  /\ catFailed' = FALSE
  /\ crawled' = IF i = 1 THEN <<CodeOrder[i]>> ELSE Append(crawled, CodeOrder[i])

\* POST /api/fetch arrives: the body is read and the URL stripped; a missing
\* URL is answered 400 at once.
ApiFetchReceive(url) ==
  /\ pc = "idle"
  /\ raw_url' = Strip(url)
  /\ gidx' = 0 /\ rows' = <<>> /\ page' = 0 /\ end_id' = <<>>
  /\ all_rows' = <<>> /\ by_banner' = <<>>
  /\ probes' = 0 /\ probeAnswer' = NoResp /\ paged' = FALSE /\ written' = FALSE
  /\ stats_resp' = NoResp
  /\ fileBefore' = DATA_FILE
  /\ lastEvent' = "none" /\ nReq' = 0 /\ anyFailure' = FALSE
  /\ catFailed' = FALSE
  /\ served' = {} /\ crawled' = <<>>
  /\ IF ~Truthy(Strip(url))
     THEN pc' = "idle" /\ resp' = MissingUrl
     ELSE pc' = "probe" /\ resp' = NoResp
  /\ UNCHANGED <<upstream, DATA_FILE>>

\* api_fetch: normalize_url, then test_link's single request; an invalid link
\* is answered 400, a valid one enters fetch_all_gachas and its first crawl.
Probe(js) ==
  /\ pc = "probe"
  /\ probes' = probes + 1
  /\ probeAnswer' = js
  /\ IF test_link(js)
     THEN /\ StartBanner(1)
          /\ UNCHANGED resp
     ELSE /\ pc' = "idle"
          /\ resp' = InvalidLink
          /\ UNCHANGED <<gidx, rows, page, end_id, lastEvent, nReq, catFailed,
                         crawled>>
  /\ UNCHANGED <<upstream, DATA_FILE, raw_url, all_rows, by_banner, stats_resp,
                 paged, written, fileBefore, anyFailure, served>>

\* fetch_banner, one turn of the loop up to the sleep: the request, the break
\* on a failure or an empty page, else transform, extend, cursor, page.
FetchPage(js) ==
  /\ pc = "req"
  /\ paged' = TRUE
  /\ nReq' = nReq + 1
  /\ lastEvent' = "request"
  /\ anyFailure' = (anyFailure \/ js.exc \/ js.retcode # 0)
  /\ catFailed' = (catFailed \/ js.exc \/ js.retcode # 0)
  /\ served' = served \cup {<<CodeOrder[gidx], js.list[i].id>> : i \in 1..Len(js.list)}
  /\ IF js.exc
     THEN /\ pc' = "returned"
          /\ rows' = RowsAfterBreak(rows)
          /\ UNCHANGED <<page, end_id>>
     ELSE IF DataRows(js) = <<>>
     THEN /\ pc' = "returned"
          /\ UNCHANGED <<rows, page, end_id>>
     ELSE /\ rows' = rows \o TransformRows(DataRows(js), CodeOrder[gidx])
          /\ end_id' = NextCursor(DataRows(js))
          /\ page' = page + 1
          /\ pc' = AfterPage
  /\ UNCHANGED <<upstream, DATA_FILE, raw_url, gidx, all_rows, by_banner, resp,
                 stats_resp, probes, probeAnswer, written, fileBefore, crawled>>

\* fetch_banner: time.sleep(REQUEST_DELAY) at the end of a turn.
Sleep ==
  /\ pc = "sleep"
  /\ pc' = "req"
  /\ lastEvent' = "delay"
  /\ UNCHANGED <<upstream, DATA_FILE, raw_url, local, resp, stats_resp, probes,
                 probeAnswer, paged, written, fileBefore, nReq, anyFailure,
                 catFailed, served, crawled>>

\* fetch_all_gachas, the loop body after fetch_banner returned: non-empty rows
\* are recorded under the label and appended; then the next category, or the
\* end of the loop.
Collect ==
  /\ pc = "returned"
  /\ IF rows # <<>>
     THEN /\ by_banner' = (GACHA_TYPES[CodeOrder[gidx]] :> rows) @@ by_banner
          /\ all_rows' = all_rows \o rows
     ELSE UNCHANGED <<by_banner, all_rows>>
  /\ IF gidx < Len(CodeOrder)
     THEN StartBanner(gidx + 1)
     ELSE /\ pc' = "combine"
          /\ UNCHANGED <<gidx, rows, page, end_id, lastEvent, nReq, catFailed,
                         crawled>>
  /\ UNCHANGED <<upstream, DATA_FILE, raw_url, resp, stats_resp, probes,
                 probeAnswer, paged, written, fileBefore, anyFailure, served>>

\* fetch_all_gachas: dedupe_and_sort, save_history; api_fetch: the counts and
\* the 200 response.
Combine ==
  /\ pc = "combine"
  /\ DATA_FILE' = <<dedupe_and_sort(all_rows)>>
  /\ written' = TRUE
  /\ resp' = FetchOk(by_banner)
  /\ pc' = "idle"
  /\ UNCHANGED <<upstream, raw_url, local, stats_resp, probes, probeAnswer,
                 paged, fileBefore, lastEvent, nReq, anyFailure, catFailed,
                 served, crawled>>

\* GET /api/stats, the whole handler.
ApiStats ==
  /\ pc = "idle"
  /\ stats_resp' = api_stats(DATA_FILE)
  /\ UNCHANGED <<upstream, DATA_FILE, pc, raw_url, local, resp, observed>>

\* No request is being handled and none has been.
Quiet ==
  /\ raw_url = <<>>
  /\ gidx = 0 /\ rows = <<>> /\ page = 0 /\ end_id = <<>>
  /\ by_banner = <<>>
  /\ resp = NoResp /\ stats_resp = NoResp
  /\ probes = 0 /\ probeAnswer = NoResp /\ paged = FALSE /\ written = FALSE
  /\ fileBefore = <<>>
  /\ lastEvent = "none" /\ nReq = 0 /\ anyFailure = FALSE /\ catFailed = FALSE
  /\ served = {} /\ crawled = <<>>

\* The server after start-up: no history file, no request handled yet.
Init ==
  /\ upstream \in Upstreams(MaxPulls)
  /\ DATA_FILE = <<>>
  /\ pc = "idle"
  /\ all_rows = <<>>
  /\ Quiet

\* The environment's part of each step: the request body, the vendor's answer.
Receive == \E url \in BodyUrls : ApiFetchReceive(url)

ProbeLink == \E js \in {Failure, VendorError, Success(<<>>)} : Probe(js)

RequestPage ==
  /\ pc = "req"
  /\ \E js \in Answers(upstream, PageRequest(CodeOrder[gidx], page, end_id)) :
       FetchPage(js)

Next ==
  \/ Receive
  \/ ProbeLink
  \/ RequestPage
  \/ Sleep
  \/ Collect
  \/ Combine
  \/ ApiStats

Spec == Init /\ [][Next]_vars

\* dedupe_and_sort on its own: fetch_all_gachas is about to combine a list of
\* transformed rows that may repeat ids, carry an empty id, and be in any
\* order.
DedupeIds == {<<>>, <<9>>, <<1, 0>>}
DedupeTimes == {<<"x">>, <<"t", 1>>}

DedupeRows ==
  {TransformRow([id |-> i, rank_type |-> <<3>>, time |-> t], c) :
     i \in DedupeIds, t \in DedupeTimes, c \in DataCodes}

NoUpstream == [c \in DOMAIN GACHA_TYPES |-> <<>>]

DedupeInit ==
  /\ upstream = NoUpstream
  /\ DATA_FILE = <<>>
  /\ pc = "combine"
  /\ all_rows \in UNION {[1..n -> DedupeRows] : n \in 0..MaxLen}
  /\ Quiet

SpecDedupe == DedupeInit /\ [][Combine]_vars

\* api_stats on its own: the history file holds rows in any order, as a file
\* that came from elsewhere may.
StoredTimes == {<<"x">>, <<"t", 1>>, <<"t", 2>>}

StoredRows(i) ==
  {TransformRow([id |-> IdOf(i), rank_type |-> k, time |-> t], c) :
     k \in Ranks, t \in StoredTimes, c \in DataCodes}

\* The histories of exactly n rows: row i carries the i-th id.
RECURSIVE HistoriesOfLen(_)
HistoriesOfLen(n) ==
  IF n = 0 THEN {<<>>}
  ELSE {Append(h, r) : h \in HistoriesOfLen(n - 1), r \in StoredRows(n)}

StoredHistories(max) == UNION {HistoriesOfLen(n) : n \in 1..max}

StatsInit ==
  /\ upstream = NoUpstream
  /\ DATA_FILE \in {<<h>> : h \in StoredHistories(MaxLen)}
  /\ pc = "idle"
  /\ all_rows = <<>>
  /\ Quiet

SpecStats == StatsInit /\ [][ApiStats]_vars

\* The crawl runs to its end once started: the interpreter keeps executing
\* fetch_banner's loop (each request returns or times out after 15 s).
FairSpec == Spec /\ WF_vars(RequestPage) /\ WF_vars(Sleep)

\* ------------------------------------------------------------------ claims
BannerRowsExact ==
  LET u == upstream[CodeOrder[gidx]] IN
  /\ Len(rows) = Len(u)
  /\ \A j \in 1..Len(u) :
       Cardinality({i \in 1..Len(rows) : rows[i].id = u[j].id
                                          /\ rows[i].banner = CodeOrder[gidx]}) = 1

History == load_history(DATA_FILE)

\* (a._ts, a.id) >= (b._ts, b.id) as Python compares the tuples.
TupleGeq(a, b) == a._ts > b._ts \/ (a._ts = b._ts /\ ~LexLess(a.id, b.id))

\* C3: the persisted History is ordered newest first: every adjacent pair
\* (a, b) has (a._ts, a.id) >= (b._ts, b.id).
C3_HistoryNewestFirst ==
  DATA_FILE # <<>> => \A i \in 1..(Len(History) - 1) : TupleGeq(History[i], History[i + 1])

\* A fetch just persisted two rows of unknown time stamp, ordered by id, in
\* another order than the crawl gathered them.
C3_Witness ==
  /\ pc = "idle" /\ written /\ Len(History) = 2
  /\ History[1]._ts = 0 /\ History[2]._ts = 0
  /\ History # all_rows

ProbeSaidValid == probeAnswer # NoResp /\ ~probeAnswer.exc /\ probeAnswer.retcode = 0

\* C5: a page request or a write of the history happens only for a request
\* with a non-empty URL whose single probe was answered valid; a missing URL
\* causes no upstream request; both failures answer 400 and leave the file.
C5_ProbeGate ==
  /\ (paged \/ written \/ pc \in {"req", "sleep", "returned", "combine"} \/ resp.kind = "ok")
       => (Truthy(raw_url) /\ probes = 1 /\ ProbeSaidValid)
  /\ probes <= 1
  /\ pc # "idle" => Truthy(raw_url)
  /\ resp.kind = "missing_url"
       => (resp.status = 400 /\ probes = 0 /\ ~paged /\ ~written /\ DATA_FILE = fileBefore)
  /\ (probes = 1 /\ ~ProbeSaidValid)
       => (resp.kind = "invalid_link" /\ resp.status = 400 /\ ~paged /\ ~written
           /\ DATA_FILE = fileBefore)
  /\ resp.kind = "invalid_link" => (probes = 1 /\ ~ProbeSaidValid)

\* A request whose probe failed was answered 400 while a history of an earlier
\* fetch stays in the file.
C5_Witness ==
  /\ resp.kind = "invalid_link" /\ probes = 1
  /\ DATA_FILE # <<>> /\ History # <<>>

ServedOf(c) == {s \in served : s[1] = c}

\* C6: a failed page request ends the crawl of its category only: the rows
\* gathered are returned, the run goes through the whole table in order, the
\* History is saved with every row gathered, and the answer is 200.
C6_FailureEndsCategoryOnly ==
  /\ (pc = "returned" /\ catFailed)
       => \A s \in ServedOf(CodeOrder[gidx]) : \E i \in 1..Len(rows) : rows[i].id = s[2]
  /\ (pc = "idle" /\ anyFailure)
       => /\ resp.status = 200 /\ resp.kind = "ok"
          /\ written
          /\ crawled = CodeOrder
          /\ \A s \in served : \E i \in 1..Len(History) :
                History[i].id = s[2] /\ History[i].banner = s[1]
          /\ resp.total = Cardinality(served)

\* A run ended in which a category was cut short by a failure after a first
\* page, and the later categories were still crawled.
C6_Witness ==
  /\ pc = "idle" /\ anyFailure /\ resp.kind = "ok"
  /\ Cardinality(ServedOf("200")) = 1 /\ Len(upstream["200"]) = 2
  /\ Len(History) = 1 /\ crawled = CodeOrder

\* C10: a page request is the first of its category and follows the start of
\* the crawl directly, or it follows a delay; a delay follows a page request;
\* a category is started only when the one before it has returned.
C10_DelayBetweenPages ==
  [][ /\ (nReq' = nReq + 1)
         => (IF nReq = 0 THEN lastEvent = "begin" ELSE lastEvent = "delay")
      /\ (lastEvent' = "delay" /\ lastEvent # "delay") => lastEvent = "request"
      /\ (gidx' # gidx /\ gidx >= 1 /\ gidx' >= 1)
         => (pc = "returned" /\ gidx' = gidx + 1) ]_vars

\* The second page request of a category has been made.
C10_Witness == nReq = 2 /\ lastEvent = "request" /\ pc = "sleep"

\* C7: after a fetch in which a category returned no rows, counts_by_banner
\* omits its label and the pity mapping of GET /api/stats has it with value
\* 0; the pity mapping has every label of the table.
C7_PityHasEveryLabel ==
  (pc = "idle" /\ resp.kind = "ok" /\ stats_resp.kind = "stats")
    => \A c \in DOMAIN GACHA_TYPES :
         /\ GACHA_TYPES[c] \in DOMAIN stats_resp.pity
         /\ (GACHA_TYPES[c] \notin DOMAIN by_banner)
              => /\ GACHA_TYPES[c] \notin DOMAIN resp.counts_by_banner
                 /\ stats_resp.pity[GACHA_TYPES[c]] = 0

\* C8: GET /api/stats answers "no data" exactly when no history was ever
\* persisted, so the answer after a fetch of zero pulls differs from it.
C8_NoDataMeansNeverFetched ==
  stats_resp # NoResp => (stats_resp.kind = "no_history" <=> DATA_FILE = <<>>)

Ids(rs) == {rs[i].id : i \in 1..Len(rs)}

FirstWith(rs, id) == rs[CHOOSE i \in 1..Len(rs) : rs[i].id = id /\ \A j \in 1..(i - 1) : rs[j].id # id]

OnePerId(out, rs, ids) ==
  /\ Len(out) = Cardinality(ids)
  /\ Ids(out) = ids
  /\ \A j \in 1..Len(out) : out[j] = FirstWith(rs, out[j].id)

\* C2 as stated: the output of dedupe_and_sort holds one row per distinct id
\* of the input, the first of each.
C2_OnePerDistinctId ==
  written => OnePerId(History, all_rows, Ids(all_rows))

\* C2: the output of dedupe_and_sort holds one row per distinct non-empty id
\* of the input, the first of each; rows without an id are left out.
C2_OnePerNonEmptyId ==
  written => OnePerId(History, all_rows, Ids(all_rows) \ {<<>>})

\* An id came twice with different rows, and a row had no id.
C2_Witness ==
  /\ written /\ Len(all_rows) = 3 /\ Len(History) = 1
  /\ all_rows[1].id = all_rows[3].id /\ all_rows[1] # all_rows[3]
  /\ all_rows[2].id = <<>>

NewestFirst(h) == \A i \in 1..(Len(h) - 1) : TupleGeq(h[i], h[i + 1])

PullsOf(h, label) == SelectSeq(h, LAMBDA r : r.banner_label = label)

\* The number of rows of the label before its first 5-star; all of them when
\* it has none.
BeforeFirstFive(h, label) ==
  LET f == PullsOf(h, label)
      fives == {i \in 1..Len(f) : f[i].rarity = 5} IN
  IF fives = {} THEN Len(f)
  ELSE (CHOOSE i \in fives : \A j \in fives : i <= j) - 1

\* C4: over a History ordered newest first, the pity of a label is the number
\* of its rows before its first 5-star; it is at most the label's pulls and 0
\* when the label's newest row is a 5-star.
C4_PityBeforeFirstFive ==
  (stats_resp.kind = "stats" /\ NewestFirst(History))
    => /\ \A label \in DOMAIN stats_resp.pity :
            /\ stats_resp.pity[label] = BeforeFirstFive(History, label)
            /\ stats_resp.pity[label] <= Len(PullsOf(History, label))
            /\ PullsOf(History, label)[1].rarity = 5 => stats_resp.pity[label] = 0
       /\ \A label \in Labels :
            calc_stats(History).pity[label] = BeforeFirstFive(History, label)

\* Three pulls of one label, newest first, the middle one a 5-star: pity 1.
C4_Witness ==
  /\ stats_resp.kind = "stats" /\ NewestFirst(History) /\ Len(History) = 3
  /\ \E label \in DOMAIN stats_resp.pity :
       /\ Len(PullsOf(History, label)) = 3
       /\ History[2].rarity = 5
       /\ stats_resp.pity[label] = 1

PityNewestFirst(h) ==
  [label \in {h[i].banner_label : i \in 1..Len(h)} |-> BeforeFirstFive(Reverse(h), label)]

\* C9 as stated: for a stored history whose first time stamp is earlier than
\* its last, the pity returned is the pity of the reversed sequence.
C9_ReversedWhenFirstEarlier ==
  (stats_resp.kind = "stats" /\ History[1]._ts < History[Len(History)]._ts)
    => stats_resp.pity = PityNewestFirst(History)

\* C9: for a stored history whose first and last time stamps are both known
\* (non-zero) and the first is earlier, the pity returned is the pity of the
\* reversed sequence.
C9_ReversedWhenBothKnown ==
  (/\ stats_resp.kind = "stats"
   /\ History[1]._ts # 0 /\ History[Len(History)]._ts # 0
   /\ History[1]._ts < History[Len(History)]._ts)
    => stats_resp.pity = PityNewestFirst(History)

\* An oldest-first history for which the reversal changes the pity.
C9_Witness ==
  /\ stats_resp.kind = "stats"
  /\ History[1]._ts # 0 /\ History[1]._ts < History[Len(History)]._ts
  /\ stats_resp.pity = PityNewestFirst(History)
  /\ \E label \in DOMAIN stats_resp.pity :
       stats_resp.pity[label] # BeforeFirstFive(History, label)

====
